---- MODULE Spec2Model ----
(***************************************************************************)
(* Model of vcdbranding/main.py: one interactive run that normalises the   *)
(* vCloud Director URL, logs in, asks for a theme color and a logo path,   *)
(* and issues the theme PUT and the logo PUT.                              *)
(*                                                                         *)
(* Python strings are sequences of one-character strings, so that the      *)
(* string functions of the program (re.sub, strip, len, indexing,          *)
(* Path.suffix, lower, replace) are computed character by character.       *)
(***************************************************************************)
EXTENDS Integers, Sequences, FiniteSets, TLC

VARIABLES pc, url_raw, url, username, password, res, auth_headers,
          color, logo, content_type, depth, entry,
          theme_res, logo_res, sent, trace, printed, error, exitCode,
          portalColor

vars == <<pc, url_raw, url, username, password, res, auth_headers,
          color, logo, content_type, depth, entry,
          theme_res, logo_res, sent, trace, printed, error, exitCode,
          portalColor>>

----------------------------------------------------------------------------
(* Bounds of the model *)

\* most http(s):// prefixes put in front of the host of a typed URL
MaxPrefix == 1
\* most trailing slashes put behind the host of a typed URL
MaxSlash == 1
\* most hex digits in a typed color
MaxHexLen == 7
\* most prompts one validator shows in a run
MaxPrompts == 3

----------------------------------------------------------------------------
(* Strings *)

None == <<"None">>
Running == 0 - 1

S_http == <<"h", "t", "t", "p", ":", "/", "/">>
S_https == <<"h", "t", "t", "p", "s", ":", "/", "/">>
S_api == <<"a", "p", "i">>
S_sessions == <<"s", "e", "s", "s", "i", "o", "n", "s">>
S_cloudapi == <<"c", "l", "o", "u", "d", "a", "p", "i">>
S_branding == <<"b", "r", "a", "n", "d", "i", "n", "g">>
S_logo == <<"l", "o", "g", "o">>
S_image == <<"i", "m", "a", "g", "e", "/">>
S_png == <<".", "p", "n", "g">>
S_jpeg == <<".", "j", "p", "e", "g">>
S_jpg == <<".", "j", "p", "g">>
S_json == <<"application/json">>
S_accept == <<"application/json;version=30.0">>

StartsWith(s, p) == Len(s) >= Len(p) /\ SubSeq(s, 1, Len(p)) = p
EndsWith(s, p) == Len(s) >= Len(p) /\ SubSeq(s, Len(s) - Len(p) + 1, Len(s)) = p
Drop(s, n) == SubSeq(s, n + 1, Len(s))

RECURSIVE Repeat(_, _)
Repeat(s, n) == IF n = 0 THEN <<>> ELSE s \o Repeat(s, n - 1)

\* str.lstrip("/"), str.rstrip("/")
RECURSIVE LStrip(_)
LStrip(s) == IF s # <<>> /\ Head(s) = "/" THEN LStrip(Tail(s)) ELSE s
RECURSIVE RStrip(_)
RStrip(s) == IF s # <<>> /\ s[Len(s)] = "/" THEN RStrip(SubSeq(s, 1, Len(s) - 1)) ELSE s
Strip(s) == RStrip(LStrip(s))

\* re.sub(r"https?\:\/\/", "", s): every non-overlapping match, left to right
RECURSIVE ReSubProtocol(_)
ReSubProtocol(s) ==
    IF s = <<>> THEN <<>>
    ELSE IF StartsWith(s, S_https) THEN ReSubProtocol(Drop(s, Len(S_https)))
    ELSE IF StartsWith(s, S_http) THEN ReSubProtocol(Drop(s, Len(S_http)))
    ELSE <<Head(s)>> \o ReSubProtocol(Tail(s))

\* "/".join(rest)
RECURSIVE Join(_)
Join(rest) ==
    IF rest = <<>> THEN <<>>
    ELSE IF Len(rest) = 1 THEN rest[1]
    ELSE rest[1] \o <<"/">> \o Join(Tail(rest))

UpperChars == <<"P", "N", "G", "J", "E", "I", "F">>
LowerChars == <<"p", "n", "g", "j", "e", "i", "f">>
LowerChar(c) ==
    IF \E i \in 1..Len(UpperChars) : UpperChars[i] = c
    THEN LowerChars[CHOOSE i \in 1..Len(UpperChars) : UpperChars[i] = c]
    ELSE c
\* str.lower()
Lower(s) == [i \in 1..Len(s) |-> LowerChar(s[i])]

\* str.replace(".", "")
RECURSIVE RemoveDots(_)
RemoveDots(s) ==
    IF s = <<>> THEN <<>>
    ELSE IF Head(s) = "." THEN RemoveDots(Tail(s))
    ELSE <<Head(s)>> \o RemoveDots(Tail(s))

\* the largest index of character c in s, 0 when there is none (str.rfind + 1)
LastIndex(s, c) ==
    IF \E i \in 1..Len(s) : s[i] = c
    THEN CHOOSE i \in 1..Len(s) : s[i] = c /\ \A j \in (i + 1)..Len(s) : s[j] # c
    ELSE 0

\* PurePath.name: the final component of the path
PathName(p) == Drop(RStrip(p), LastIndex(RStrip(p), "/"))

\* PurePath.suffix: the last dot of the name and what follows it, unless the
\* dot is the first or the last character of the name
PathSuffix(p) ==
    LET name == PathName(p)
        i == LastIndex(name, ".")
    IN IF 1 < i /\ i < Len(name) THEN Drop(name, i - 1) ELSE <<>>

----------------------------------------------------------------------------
(* Constants and pure functions of main.py *)

DEFAULT_HEADERS == [Accept |-> S_accept]

SUPPORTED_LOGO_FORMATS == {S_png, S_jpeg, S_jpg}

get_url_keep_slash(url_raw_) == ReSubProtocol(url_raw_)
get_url(url_raw_) == RStrip(Strip(ReSubProtocol(url_raw_)))

build_url(base, rest) == S_https \o base \o <<"/">> \o Join(rest)

\* f"{username}@system:{password}" base64-encoded; the encoding is kept symbolic
get_token_value(u, p) == <<"b64">> \o u \o <<"@", "system", ":">> \o p

\* the loop of get_auth_headers over the two header values
AuthOnlyFirstChecked(auth, access) == auth = None
AuthMissing(auth, access) == \E value \in {auth, access} : value = None

\* the condition of get_color._handle_error that rejects a color
ColorRejectedShort(_color) == Len(_color) < 7
ColorRejected(_color) == Len(_color) # 7

\* the condition of get_logo._handle_error that rejects a path
LogoRejected(_logo) == Lower(PathSuffix(_logo)) \notin SUPPORTED_LOGO_FORMATS

ContentType(logo_) == S_image \o RemoveDots(Lower(PathSuffix(logo_)))

ThemeOkAny2xx(status) == status \in {200, 204}
ThemeOk(status) == status = 200

LogoOkAny2xx(status) == status \in {200, 204}
LogoOk(status) == status = 204

----------------------------------------------------------------------------
(* What the user types and what the server answers *)

S_example == <<"c", "l", "o", "u", "d", ".", "e", "x", "a", "m", "p", "l", "e", ".", "c", "o", "m">>
S_hostport == <<"v", "c", "d", ":", "8", "4", "4", "3">>
Hosts == {S_example, S_hostport}

RECURSIVE PrefixRuns(_)
PrefixRuns(n) ==
    IF n = 0 THEN {<<>>}
    ELSE PrefixRuns(n - 1) \cup {p \o q : p \in {S_http, S_https}, q \in PrefixRuns(n - 1)}

UrlInputs == {p \o h \o Repeat(<<"/">>, n) : p \in PrefixRuns(MaxPrefix), h \in Hosts, n \in 0..MaxSlash}

Usernames == {<<"administrator">>}
Passwords == {<<"secret">>}

HexLens == {0} \cup (5..MaxHexLen)
ColorInputs == {Repeat(<<"f">>, n) : n \in HexLens} \cup {<<"#">> \o Repeat(<<"f">>, n) : n \in HexLens}

LogoInputs == {
    <<>>,
    <<"l", ".", "p", "n", "g">>,
    <<"l", ".", "P", "N", "G">>,
    <<"l", ".", "j", "p", "g">>,
    <<"d", "/", "l", ".", "J", "p", "e", "g">>,
    <<"l", ".", "g", "i", "f">>,
    <<".", "p", "n", "g">>,
    <<"d", ".", "p", "n", "g", "/", "l">> }

AuthValues == {None, <<"token-1">>, <<"token-2">>}
AccessValues == {None, <<"jwt-1">>}

ThemeStatuses == {200, 204, 400}
LogoStatuses == {204, 200, 500}
Bodies == {<<"body-1">>, <<"body-2">>}

----------------------------------------------------------------------------
(* State *)

NoError == [kind |-> "none", text |-> <<>>]
NoLogin == [received |-> FALSE, auth |-> None, access |-> None]
NoResponse == [received |-> FALSE, status_code |-> 0, text |-> <<>>]
NoHeaders == [auth |-> None, access |-> None]

Count(seq, e) == Cardinality({i \in 1..Len(seq) : seq[i] = e})

Request(method, target, authorization, headers, ctype, payload) ==
    [method |-> method, url |-> target, Accept |-> DEFAULT_HEADERS.Accept,
     Authorization |-> authorization,
     auth |-> headers.auth, access |-> headers.access,
     ContentType |-> ctype, payload |-> payload]

Init ==
    /\ pc = "get_url"
    /\ url_raw = <<>>
    /\ url = <<>>
    /\ username = <<>>
    /\ password = <<>>
    /\ res = NoLogin
    /\ auth_headers = NoHeaders
    /\ color = <<>>
    /\ logo = <<>>
    /\ content_type = <<>>
    /\ depth = 0
    /\ entry = <<>>
    /\ theme_res = NoResponse
    /\ logo_res = NoResponse
    /\ sent = <<>>
    /\ trace = <<>>
    /\ printed = {}
    /\ error = NoError
    /\ exitCode = Running
    /\ portalColor = <<"default">>

\* the interpreter leaves with an uncaught exception: traceback, exit status 1
Raise(kind, text) ==
    /\ pc' = "exit"
    /\ error' = [kind |-> kind, text |-> text]
    /\ exitCode' = 1

----------------------------------------------------------------------------
(* Steps of the run *)

\* url = get_url(input("vCloud Director URL: "))
PromptUrl ==
    /\ pc = "get_url"
    /\ \E typed \in UrlInputs :
        /\ url_raw' = typed
        /\ url' = get_url(typed)
    /\ trace' = Append(trace, "prompt_url")
    /\ pc' = "username"
    /\ UNCHANGED <<username, password, res, auth_headers, color, logo, content_type,
                   depth, entry, theme_res, logo_res, sent, printed, error, exitCode,
                   portalColor>>

\* get_token: username = input("Username: ")
PromptUsername ==
    /\ pc = "username"
    /\ \E typed \in Usernames : username' = typed
    /\ trace' = Append(trace, "prompt_username")
    /\ pc' = "password"
    /\ UNCHANGED <<url_raw, url, password, res, auth_headers, color, logo, content_type,
                   depth, entry, theme_res, logo_res, sent, printed, error, exitCode,
                   portalColor>>

\* get_token: password = input("Password: ")
PromptPassword ==
    /\ pc = "password"
    /\ \E typed \in Passwords : password' = typed
    /\ trace' = Append(trace, "prompt_password")
    /\ pc' = "login"
    /\ UNCHANGED <<url_raw, url, username, res, auth_headers, color, logo, content_type,
                   depth, entry, theme_res, logo_res, sent, printed, error, exitCode,
                   portalColor>>

\* get_auth_headers: the login POST, the two header reads and the None check
LoginPostSkipPrompts ==
    /\ pc = "login"
    /\ sent' = Append(sent, Request("POST", build_url(url, <<S_api, S_sessions>>),
                                    <<"Basic ">> \o get_token_value(username, password),
                                    NoHeaders, S_json, <<>>))
    /\ trace' = Append(trace, "post_sessions")
    /\ \E auth \in AuthValues, access \in AccessValues :
        /\ res' = [received |-> TRUE, auth |-> auth, access |-> access]
        /\ IF AuthMissing(auth, access)
           THEN /\ printed' = printed \cup {"Authentication failed."}
                /\ pc' = "exit"
                /\ exitCode' = 1
                /\ UNCHANGED auth_headers
           ELSE /\ auth_headers' = [auth |-> auth, access |-> access]
                /\ pc' = "theme_put"
                /\ UNCHANGED <<printed, exitCode>>
    /\ UNCHANGED <<url_raw, url, username, password, color, logo, content_type,
                   depth, entry, theme_res, logo_res, error, portalColor>>

LoginPost ==
    /\ pc = "login"
    /\ sent' = Append(sent, Request("POST", build_url(url, <<S_api, S_sessions>>),
                                    <<"Basic ">> \o get_token_value(username, password),
                                    NoHeaders, S_json, <<>>))
    /\ trace' = Append(trace, "post_sessions")
    /\ \E auth \in AuthValues, access \in AccessValues :
        /\ res' = [received |-> TRUE, auth |-> auth, access |-> access]
        /\ IF AuthMissing(auth, access)
           THEN /\ printed' = printed \cup {"Authentication failed."}
                /\ pc' = "exit"
                /\ exitCode' = 1
                /\ UNCHANGED auth_headers
           ELSE /\ auth_headers' = [auth |-> auth, access |-> access]
                /\ pc' = "color"
                /\ UNCHANGED <<printed, exitCode>>
    /\ UNCHANGED <<url_raw, url, username, password, color, logo, content_type,
                   depth, entry, theme_res, logo_res, error, portalColor>>

\* get_color: the first "Color: " prompt, the "#" prefix, the first length check
GetColor ==
    /\ pc = "color"
    /\ \E typed \in ColorInputs :
        /\ entry' = typed
        /\ IF typed = <<>>
           THEN /\ Raise("IndexError", <<"string index out of range">>)
                /\ trace' = Append(trace, "prompt_color")
                /\ UNCHANGED <<color, depth, printed>>
           ELSE LET prefixed == IF typed[1] # "#" THEN <<"#">> \o typed ELSE typed
                IN /\ color' = prefixed
                   /\ IF ColorRejected(prefixed)
                      THEN /\ printed' = printed \cup {"Color must be in 6 character hex format."}
                           /\ depth' = 1
                           /\ pc' = "color_retry"
                           /\ trace' = Append(trace, "prompt_color")
                      ELSE /\ depth' = 0
                           /\ pc' = "logo"
                           /\ trace' = trace \o <<"prompt_color", "color_accepted">>
                           /\ UNCHANGED printed
                   /\ UNCHANGED <<error, exitCode>>
    /\ UNCHANGED <<url_raw, url, username, password, res, auth_headers, logo, content_type,
                   theme_res, logo_res, sent, portalColor>>

\* get_color._handle_error: frame number depth reads a new color into its own
\* _color and calls itself on it; the value of that call is dropped, so the
\* outermost frame returns what its own input() read
ColorHandleError ==
    /\ pc = "color_retry"
    /\ Count(trace, "prompt_color") < MaxPrompts
    /\ \E typed \in ColorInputs :
        /\ entry' = typed
        /\ color' = IF depth = 1 THEN typed ELSE color
        /\ IF ColorRejected(typed)
           THEN /\ printed' = printed \cup {"Color must be in 6 character hex format."}
                /\ depth' = depth + 1
                /\ pc' = "color_retry"
                /\ trace' = Append(trace, "prompt_color")
           ELSE /\ depth' = 0
                /\ pc' = "logo"
                /\ trace' = trace \o <<"prompt_color", "color_accepted">>
                /\ UNCHANGED printed
    /\ UNCHANGED <<url_raw, url, username, password, res, auth_headers, logo, content_type,
                   theme_res, logo_res, sent, error, exitCode, portalColor>>

\* get_logo: the first "Path to logo: " prompt and the first suffix check;
\* update_theme derives content_type as soon as get_logo returns
GetLogo ==
    /\ pc = "logo"
    /\ \E typed \in LogoInputs :
        /\ entry' = typed
        /\ logo' = typed
        /\ IF LogoRejected(typed)
           THEN /\ printed' = printed \cup {"Logo is not one of .png, .jpeg, .jpg"}
                /\ depth' = 1
                /\ pc' = "logo_retry"
                /\ trace' = Append(trace, "prompt_logo")
                /\ UNCHANGED content_type
           ELSE /\ depth' = 0
                /\ content_type' = ContentType(typed)
                /\ pc' = "theme_put"
                /\ trace' = trace \o <<"prompt_logo", "logo_accepted">>
                /\ UNCHANGED printed
    /\ UNCHANGED <<url_raw, url, username, password, res, auth_headers, color,
                   theme_res, logo_res, sent, error, exitCode, portalColor>>

\* get_logo._handle_error: as for the color, the value of the inner call is dropped
LogoHandleError ==
    /\ pc = "logo_retry"
    /\ Count(trace, "prompt_logo") < MaxPrompts
    /\ \E typed \in LogoInputs :
        /\ entry' = typed
        /\ logo' = IF depth = 1 THEN typed ELSE logo
        /\ IF LogoRejected(typed)
           THEN /\ printed' = printed \cup {"Logo is not one of .png, .jpeg, .jpg"}
                /\ depth' = depth + 1
                /\ pc' = "logo_retry"
                /\ trace' = Append(trace, "prompt_logo")
                /\ UNCHANGED content_type
           ELSE /\ depth' = 0
                /\ content_type' = ContentType(logo')
                /\ pc' = "theme_put"
                /\ trace' = trace \o <<"prompt_logo", "logo_accepted">>
                /\ UNCHANGED printed
    /\ UNCHANGED <<url_raw, url, username, password, res, auth_headers, color,
                   theme_res, logo_res, sent, error, exitCode, portalColor>>

\* update_theme: the theme PUT and the check of its status
ThemePut ==
    /\ pc = "theme_put"
    /\ sent' = Append(sent, Request("PUT", build_url(url, <<S_cloudapi, S_branding>>),
                                    None, auth_headers, S_json, color))
    /\ trace' = Append(trace, "put_branding")
    /\ \E status \in ThemeStatuses, body \in Bodies :
        /\ theme_res' = [received |-> TRUE, status_code |-> status, text |-> body]
        /\ portalColor' = IF status = 200 THEN color ELSE portalColor
        /\ IF ThemeOk(status)
           THEN /\ printed' = printed \cup {"Set theme color to"}
                /\ pc' = "logo_open"
                /\ UNCHANGED <<error, exitCode>>
           ELSE /\ printed' = printed \cup {"theme"}
                /\ Raise("Exception", <<"Error while setting theme: ">> \o body)
    /\ UNCHANGED <<url_raw, url, username, password, res, auth_headers, color, logo,
                   content_type, depth, entry, logo_res>>

\* update_theme: logo.open("rb"); the path was never checked to exist
LogoOpen ==
    /\ pc = "logo_open"
    /\ trace' = Append(trace, "open_logo")
    /\ \E readable \in BOOLEAN :
        IF readable
        THEN /\ pc' = "logo_put"
             /\ UNCHANGED <<error, exitCode>>
        ELSE Raise("OSError", logo)
    /\ UNCHANGED <<url_raw, url, username, password, res, auth_headers, color, logo,
                   content_type, depth, entry, theme_res, logo_res, sent, printed,
                   portalColor>>

\* update_theme: the logo PUT, the check of its status and the final report
LogoPutRetry ==
    /\ pc = "logo_put"
    /\ Len(sent) < 4
    /\ sent' = Append(sent, Request("PUT", build_url(url, <<S_cloudapi, S_branding, S_logo>>),
                                    None, auth_headers, content_type, logo))
    /\ trace' = Append(trace, "put_logo")
    /\ \E status \in LogoStatuses, body \in Bodies :
        /\ logo_res' = [received |-> TRUE, status_code |-> status, text |-> body]
        /\ IF LogoOk(status)
           THEN /\ printed' = printed \cup {"Set logo to"}
                /\ pc' = "exit"
                /\ exitCode' = 0
                /\ UNCHANGED error
           ELSE /\ pc' = "logo_put"
                /\ UNCHANGED <<printed, error, exitCode>>
    /\ UNCHANGED <<url_raw, url, username, password, res, auth_headers, color, logo,
                   content_type, depth, entry, theme_res, portalColor>>

LogoPut ==
    /\ pc = "logo_put"
    /\ sent' = Append(sent, Request("PUT", build_url(url, <<S_cloudapi, S_branding, S_logo>>),
                                    None, auth_headers, content_type, logo))
    /\ trace' = Append(trace, "put_logo")
    /\ \E status \in LogoStatuses, body \in Bodies :
        /\ logo_res' = [received |-> TRUE, status_code |-> status, text |-> body]
        /\ IF LogoOk(status)
           THEN /\ printed' = printed \cup {"Set logo to"}
                /\ pc' = "exit"
                /\ exitCode' = 0
                /\ UNCHANGED error
           ELSE /\ Raise("Exception", <<"Error while uploading logo '">> \o logo \o <<"': ">> \o body)
                /\ UNCHANGED printed
    /\ UNCHANGED <<url_raw, url, username, password, res, auth_headers, color, logo,
                   content_type, depth, entry, theme_res, portalColor>>

\* __main__: KeyboardInterrupt while the run waits at a prompt or on a response
Interrupt ==
    /\ pc # "exit"
    /\ printed' = printed \cup {"Stopping..."}
    /\ pc' = "exit"
    /\ exitCode' = 1
    /\ error' = [kind |-> "KeyboardInterrupt", text |-> <<>>]
    /\ UNCHANGED <<url_raw, url, username, password, res, auth_headers, color, logo,
                   content_type, depth, entry, theme_res, logo_res, sent, trace,
                   portalColor>>

Next ==
    \/ PromptUrl
    \/ PromptUsername
    \/ PromptPassword
    \/ LoginPost
    \/ GetColor
    \/ ColorHandleError
    \/ GetLogo
    \/ LogoHandleError
    \/ ThemePut
    \/ LogoOpen
    \/ LogoPut
    \/ Interrupt

Spec == Init /\ [][Next]_vars

----------------------------------------------------------------------------
(* Vocabulary of the properties *)

P_sessions == <<"a", "p", "i", "/", "s", "e", "s", "s", "i", "o", "n", "s">>
P_branding == <<"c", "l", "o", "u", "d", "a", "p", "i", "/", "b", "r", "a", "n", "d", "i", "n", "g">>
P_brandingLogo == P_branding \o <<"/", "l", "o", "g", "o">>
S_imagePng == <<"i", "m", "a", "g", "e", "/", "p", "n", "g">>
S_imageJpeg == <<"i", "m", "a", "g", "e", "/", "j", "p", "e", "g">>

Has(ev) == \E i \in 1..Len(trace) : trace[i] = ev

IsLogin(r) == r.method = "POST" /\ EndsWith(r.url, <<"/">> \o P_sessions)
IsThemePut(r) == r.method = "PUT" /\ EndsWith(r.url, <<"/">> \o P_branding)
IsLogoPut(r) == r.method = "PUT" /\ EndsWith(r.url, <<"/">> \o P_brandingLogo)
IsBranding(r) == IsThemePut(r) \/ IsLogoPut(r)

Requests(Is(_)) == {i \in 1..Len(sent) : Is(sent[i])}

HashAndSixMore(c) == Len(c) = 7 /\ c[1] = "#"
SuffixAllowed(p) == Lower(PathSuffix(p)) \in {S_png, S_jpeg, S_jpg}

----------------------------------------------------------------------------
(* C1: whatever is typed at the "Color:" prompts, the color get_color returns, *)
(* and so the portalColor of the theme PUT, has length 7 and starts with "#".  *)
InvC1_ColorWellFormed ==
    /\ Has("color_accepted") => HashAndSixMore(color)
    /\ \A i \in Requests(IsThemePut) : HashAndSixMore(sent[i].payload)

(* C2: whatever is typed at the "Path to logo:" prompts, the path get_logo     *)
(* returns, and so the file uploaded by the logo PUT, has a suffix that        *)
(* lower-cased is .png, .jpeg or .jpg.                                         *)
InvC2_LogoSuffixAllowed ==
    /\ Has("logo_accepted") => SuffixAllowed(logo)
    /\ \A i \in Requests(IsLogoPut) : SuffixAllowed(sent[i].payload)

(* C3: a login response without x-vcloud-authorization or without              *)
(* X-VMWARE-VCLOUD-ACCESS-TOKEN ends the process with exit code 1, with no     *)
(* color or logo prompt and no branding request; with both present the two     *)
(* values are returned and sent unchanged on every branding request.           *)
InvC3_AuthGate ==
    /\ (res.received /\ (res.auth = None \/ res.access = None)) =>
          /\ pc = "exit"
          /\ exitCode = 1
          /\ ~Has("prompt_color")
          /\ ~Has("prompt_logo")
          /\ Requests(IsBranding) = {}
    /\ (res.received /\ res.auth # None /\ res.access # None) =>
          /\ auth_headers = [auth |-> res.auth, access |-> res.access]
          /\ \A i \in Requests(IsBranding) :
                sent[i].auth = res.auth /\ sent[i].access = res.access
    /\ ~res.received => Requests(IsBranding) = {} /\ ~Has("prompt_color") /\ ~Has("prompt_logo")

WitC3_AccessTokenMissing ==
    /\ res.received
    /\ res.auth # None
    /\ res.access = None
    /\ pc = "exit"
    /\ exitCode = 1

(* C4: the logo PUT is sent only after the theme PUT returned 200. After a 200 *)
(* the run stands at the opening of the logo file and then at the logo PUT     *)
(* (only an interrupt or a failed open ends it earlier); after any other       *)
(* status it has ended with an exception carrying the response body, without   *)
(* opening the logo file and without a logo PUT.                               *)
InvC4_LogoAfterTheme200 ==
    /\ (Has("open_logo") \/ Requests(IsLogoPut) # {}) =>
          /\ theme_res.received
          /\ theme_res.status_code = 200
          /\ Requests(IsThemePut) # {}
          /\ \A i \in Requests(IsLogoPut), j \in Requests(IsThemePut) : j < i
    /\ (theme_res.received /\ theme_res.status_code # 200) =>
          /\ pc = "exit"
          /\ exitCode # 0
          /\ error.kind = "Exception"
          /\ EndsWith(error.text, theme_res.text)
          /\ ~Has("open_logo")
          /\ Requests(IsLogoPut) = {}
    /\ (theme_res.received /\ theme_res.status_code = 200) =>
          /\ ~Has("open_logo") => (pc = "logo_open" \/ error.kind = "KeyboardInterrupt")
          /\ (Has("open_logo") /\ ~Has("put_logo")) =>
                (pc = "logo_put" \/ error.kind \in {"OSError", "KeyboardInterrupt"})
          /\ Has("put_logo") => Requests(IsLogoPut) # {}

WitC4_LogoSentAfter200 ==
    /\ theme_res.received
    /\ theme_res.status_code = 200
    /\ Requests(IsLogoPut) # {}

(* C5: the run ends with the "Set logo to" report and exit code 0 exactly when *)
(* the logo PUT returned 204; for any other logo status it ends with an        *)
(* exception carrying the logo response body, no report, exit code non-zero.   *)
InvC5_SuccessIff204 ==
    /\ (pc = "exit" /\ exitCode = 0 /\ "Set logo to" \in printed) <=>
          (logo_res.received /\ logo_res.status_code = 204)
    /\ ("Set logo to" \in printed \/ exitCode = 0) =>
          (logo_res.received /\ logo_res.status_code = 204)
    /\ (logo_res.received /\ logo_res.status_code # 204) =>
          /\ pc = "exit"
          /\ error.kind = "Exception"
          /\ EndsWith(error.text, logo_res.text)
          /\ "Set logo to" \notin printed
          /\ exitCode \notin {0, Running}

WitC5_Logo200IsFailure ==
    /\ logo_res.received
    /\ logo_res.status_code = 200
    /\ pc = "exit"
    /\ exitCode = 1

(* C6: for a typed URL made of http:// or https:// prefixes, a host and        *)
(* trailing slashes, get_url gives a string that starts with neither prefix    *)
(* and does not end with "/", and every endpoint is "https://" + that string + *)
(* "/" + the path; http://cloud.example.com/ gives the theme endpoint          *)
(* https://cloud.example.com/cloudapi/branding.                                *)
EndpointPath(r) ==
    IF r.method = "POST" THEN P_sessions
    ELSE IF r.ContentType = S_json THEN P_branding
    ELSE P_brandingLogo

InvC6_UrlNormalised ==
    Has("prompt_url") =>
        /\ ~StartsWith(url, <<"h", "t", "t", "p", ":", "/", "/">>)
        /\ ~StartsWith(url, <<"h", "t", "t", "p", "s", ":", "/", "/">>)
        /\ ~EndsWith(url, <<"/">>)
        /\ \E h \in Hosts : url = h
        /\ \A i \in 1..Len(sent) :
              sent[i].url = <<"h", "t", "t", "p", "s", ":", "/", "/">> \o url \o <<"/">> \o EndpointPath(sent[i])
        /\ url_raw = <<"h", "t", "t", "p", ":", "/", "/">> \o S_example \o <<"/">> =>
              /\ url = S_example
              /\ \A i \in Requests(IsThemePut) :
                    sent[i].url = <<"h", "t", "t", "p", "s", ":", "/", "/">> \o S_example \o <<"/">> \o P_branding

WitC6_ExampleThemeEndpoint ==
    /\ url_raw = <<"h", "t", "t", "p", ":", "/", "/">> \o S_example \o <<"/">>
    /\ Requests(IsThemePut) # {}

(* C7: for an accepted logo path the Content-Type of the logo PUT is image/png *)
(* for .png and image/jpeg for .jpeg and .jpg, and no other value is sent.     *)
InvC7_ContentType ==
    \A i \in Requests(IsLogoPut) :
        LET sfx == Lower(PathSuffix(sent[i].payload))
        IN /\ sfx = S_png => sent[i].ContentType = S_imagePng
           /\ sfx \in {S_jpeg, S_jpg} => sent[i].ContentType = S_imageJpeg
           /\ sent[i].ContentType \in {S_imagePng, S_imageJpeg}

(* C8: the events of a run come in the order URL prompt, username prompt,      *)
(* password prompt, login POST, color prompts, logo prompts, theme PUT, logo   *)
(* PUT, none skipped; no branding request before the color check and the logo  *)
(* check have passed, no color or logo prompt before the login response.       *)
Rank(ev) ==
    CASE ev = "prompt_url" -> 1
      [] ev = "prompt_username" -> 2
      [] ev = "prompt_password" -> 3
      [] ev = "post_sessions" -> 4
      [] ev = "prompt_color" -> 5
      [] ev = "color_accepted" -> 6
      [] ev = "prompt_logo" -> 7
      [] ev = "logo_accepted" -> 8
      [] ev = "put_branding" -> 9
      [] ev = "open_logo" -> 10
      [] ev = "put_logo" -> 11

InvC8_FixedOrder ==
    /\ \A i \in 1..Len(trace) :
          /\ i = 1 => trace[i] = "prompt_url"
          /\ i > 1 =>
                \/ Rank(trace[i]) = Rank(trace[i - 1]) + 1
                \/ Rank(trace[i]) = Rank(trace[i - 1]) /\ trace[i] \in {"prompt_color", "prompt_logo"}
    /\ Len(sent) = Count(trace, "post_sessions") + Count(trace, "put_branding") + Count(trace, "put_logo")
    /\ Requests(IsBranding) # {} => Has("color_accepted") /\ Has("logo_accepted")
    /\ (Has("prompt_color") \/ Has("prompt_logo")) => res.received /\ Requests(IsLogin) # {}
    /\ Has("prompt_logo") => Has("color_accepted")

WitC8_FullRunWithReprompts ==
    /\ Has("put_logo")
    /\ Count(trace, "prompt_color") >= 2
    /\ Count(trace, "prompt_logo") >= 2

(* C9: every invalid entry at the color prompt (length after "#" normalisation *)
(* other than 7, the empty string included) and at the logo prompt (suffix not *)
(* allowed, the empty path included) leaves the program running at the same    *)
(* prompt, with no HTTP request sent.                                          *)
NormalisedLength(e) == IF e # <<>> /\ e[1] = "#" THEN Len(e) ELSE Len(e) + 1

ActC9_InvalidEntryReprompts ==
    [][/\ (pc \in {"color", "color_retry"} /\ trace' # trace /\ NormalisedLength(entry') # 7) =>
             (pc' = "color_retry" /\ exitCode' = Running /\ sent' = sent)
       /\ (pc \in {"logo", "logo_retry"} /\ trace' # trace /\ ~SuffixAllowed(entry')) =>
             (pc' = "logo_retry" /\ exitCode' = Running /\ sent' = sent)]_vars

(* C10: each of the three endpoints receives at most one request in a run,     *)
(* nothing is sent after a fatal outcome, and a theme change accepted with 200 *)
(* stays applied when the logo step fails.                                     *)
StateC10 ==
    /\ Cardinality(Requests(IsLogin)) <= 1
    /\ Cardinality(Requests(IsThemePut)) <= 1
    /\ Cardinality(Requests(IsLogoPut)) <= 1
    /\ (res.received /\ (res.auth = None \/ res.access = None)) => Len(sent) = 1
    /\ (theme_res.received /\ theme_res.status_code # 200) => Len(sent) = 2
    /\ error.kind = "OSError" => Len(sent) = 2
    /\ (theme_res.received /\ theme_res.status_code = 200) =>
          \A i \in Requests(IsThemePut) : portalColor = sent[i].payload

PropC10_NoRetryNoRollback ==
    /\ []StateC10
    /\ [][/\ pc = "exit" => sent' = sent
          /\ (theme_res.received /\ theme_res.status_code = 200) => portalColor' = portalColor]_vars

WitC10_ThemeKeptAfterLogoFailure ==
    /\ theme_res.received
    /\ theme_res.status_code = 200
    /\ logo_res.received
    /\ logo_res.status_code = 500
    /\ pc = "exit"
    /\ portalColor = color

====
